---- MODULE Spec2Model ----
(***************************************************************************)
(* Model of src/circuits/circuit_naive.rs: the naive Fibonacci circuit.    *)
(* FibChip::configure declares the gate s*(a+b-c) and the three equality-  *)
(* enabled advice columns; FibChip::assign_row lays out one region of one  *)
(* row; FibCircuit::synthesize drives the recurrence for k-1 rows.         *)
(*                                                                         *)
(* The backend (layouter, constraint system, prover) is the halo2 API the  *)
(* code calls: a region per assign_region call, placed on the next free    *)
(* row; a set of enabled selector rows; a set of equality constraints.     *)
(***************************************************************************)
EXTENDS Integers, Sequences, FiniteSets, TLC

(* ---------------- bounds of the model ---------------- *)
\* order of the field F (stand-in for the Pallas prime, which does not fit)
FieldOrder == 97
\* usize arithmetic is modulo UsizeModulus (stand-in for 2^64)
UsizeModulus == 64
\* rows the layouter can allocate before assign_region returns Err
MaxRows == 12
\* largest index k of the generic inputs
MaxK == 4
\* generic inputs a, b are within MaxIn of zero, z within MaxZ of zero
MaxIn == 1
MaxZ == 8

FieldElems == 0 .. (FieldOrder - 1)
NearZero(m) == {v \in FieldElems : v <= m \/ v >= FieldOrder - m}

(* ---------------- Value<T>: known or unknown ---------------- *)
Known(v) == [known |-> TRUE, v |-> v]
Unknown == [known |-> FALSE, v |-> 0]

\* Value<F> + Value<F>: known only when both operands are known
ValueAdd(p, q) ==
    IF p.known /\ q.known THEN Known((p.v + q.v) % FieldOrder) ELSE Unknown

\* Fp::from(n)
FpFrom(n) == n % FieldOrder

(* ---------------- Option<AssignedCell> ---------------- *)
None == << >>
Some(c) == << c >>
IsSome(o) == Len(o) = 1
Unwrap(o) == o[1]

\* Cell: a column and an absolute row; AssignedCell: a cell and its value
Cell(col, row) == [column |-> col, row |-> row]
AssignedCell(col, row, val) == [cell |-> Cell(col, row), value |-> val]

(* ---------------- circuits ---------------- *)
FibCircuit(va, vb, vk, vz) == [a |-> va, b |-> vb, k |-> vk, z |-> vz]

\* FibCircuit::default(): every Value is unknown
without_witnesses(c) == FibCircuit(Unknown, Unknown, Unknown, Unknown)

\* circuits built by the tests of the source file
TestCircuits ==
    { FibCircuit(Known(FpFrom(1)), Known(FpFrom(2)), Known(9), Known(FpFrom(89))),
      FibCircuit(Known(FpFrom(5)), Known(FpFrom(8)), Known(11), Known(FpFrom(55))) }

\* the spec's first concrete scenario
ScenarioCircuits ==
    { FibCircuit(Known(FpFrom(1)), Known(FpFrom(2)), Known(9), Known(FpFrom(55))) }

GenericCircuits ==
    { FibCircuit(Known(va), Known(vb), Known(vk), Known(vz)) :
        va \in NearZero(MaxIn), vb \in NearZero(MaxIn),
        vk \in 0 .. MaxK, vz \in NearZero(MaxZ) }

\* known index, witnesses not yet available
StructuralCircuits ==
    { FibCircuit(Unknown, Unknown, Known(vk), Unknown) : vk \in 0 .. MaxK }

InputCircuits ==
    GenericCircuits \cup TestCircuits \cup ScenarioCircuits
        \cup StructuralCircuits
        \cup { FibCircuit(Unknown, Unknown, Unknown, Unknown) }

VARIABLES
    circuit,      \* the circuit the caller built
    self,         \* the circuit being synthesized in the current run
    run,          \* "first" | "again" | "placeholder"
    pc,           \* "configure" | "synthesize" | "loop" | "done" | "panic"
    equality,     \* columns with enable_equality
    gates,        \* names of the gates created
    fib0, fib1, fibtemp,
    copy_cell,    \* Option<AssignedCell>
    n,            \* end of the range 0..v-1
    x,            \* next element of the range
    advice,       \* sequence of rows [a, b, c] of Value, row r at index r+1
    selectors,    \* rows where the selector is enabled
    copies,       \* equality constraints, pairs <<Cell, Cell>>
    calls,        \* log of the assign_row calls of the current run
    first         \* table of the first run, kept for comparison

vars == << circuit, self, run, pc, equality, gates, fib0, fib1, fibtemp,
           copy_cell, n, x, advice, selectors, copies, calls, first >>

EmptyTable == [advice |-> << >>, selectors |-> {}, copies |-> {}]
Table == [advice |-> advice, selectors |-> selectors, copies |-> copies]

Init ==
    /\ circuit \in InputCircuits
    /\ self = circuit
    /\ run = "first"
    /\ pc = "configure"
    /\ equality = {}
    /\ gates = {}
    /\ fib0 = Unknown /\ fib1 = Unknown /\ fibtemp = Unknown
    /\ copy_cell = None
    /\ n = 0
    /\ x = 0
    /\ advice = << >>
    /\ selectors = {}
    /\ copies = {}
    /\ calls = << >>
    /\ first = EmptyTable

(* ---------------- FibCircuit::configure / FibChip::configure ------------ *)
\* variant: enable_equality is not called on the third column
EnabledColumns_MissingC == {"a", "b"}

\* columns on which configure calls enable_equality
EnabledColumns == {"a", "b", "c"}

configure ==
    /\ pc = "configure"
    /\ equality' = EnabledColumns
    /\ gates' = {"add"}
    /\ pc' = "synthesize"
    /\ UNCHANGED << circuit, self, run, fib0, fib1, fibtemp, copy_cell, n, x,
                    advice, selectors, copies, calls, first >>

(* ---------------- FibCircuit::synthesize ---------------- *)
\* variant: the carry-in cell of an earlier call is kept
InitialCopyCell_Stale == copy_cell

\* let mut copy_cell = None
InitialCopyCell == None

\* variant: the range is 0..v
RangeEnd_OffByOne(v) == v

\* end of the range (0..v-1), for v >= 1
RangeEnd(v) == v - 1

\* variant: the last element of the range is taken to be v-1
IsLast_OffByOne(i, v) == i = (v + UsizeModulus - 1) % UsizeModulus

\* x == v-2, in usize arithmetic
IsLast(i, v) == i = (v + UsizeModulus - 2) % UsizeModulus

SynthLocals ==
    /\ fib0' = self.a
    /\ fib1' = self.b
    /\ fibtemp' = self.b
    /\ copy_cell' = InitialCopyCell
    /\ calls' = << >>

\* self.k is unknown: Value::map does not run the closure, Ok(()) is returned
synthesize_unknown ==
    /\ pc = "synthesize"
    /\ ~ self.k.known
    /\ SynthLocals
    /\ pc' = "done"
    /\ UNCHANGED << circuit, self, run, equality, gates, n, x,
                    advice, selectors, copies, first >>

\* self.k is known and v-1 does not underflow
synthesize_known ==
    /\ pc = "synthesize"
    /\ self.k.known
    /\ self.k.v >= 1
    /\ SynthLocals
    /\ n' = RangeEnd(self.k.v)
    /\ x' = 0
    /\ pc' = "loop"
    /\ UNCHANGED << circuit, self, run, equality, gates,
                    advice, selectors, copies, first >>

\* v = 0: v-1 underflows; with overflow checks the subtraction panics
synthesize_underflow_panic ==
    /\ pc = "synthesize"
    /\ self.k.known
    /\ self.k.v = 0
    /\ SynthLocals
    /\ pc' = "panic"
    /\ UNCHANGED << circuit, self, run, equality, gates, n, x,
                    advice, selectors, copies, first >>

\* v = 0: without overflow checks the subtraction wraps
synthesize_underflow_wrap ==
    /\ pc = "synthesize"
    /\ self.k.known
    /\ self.k.v = 0
    /\ SynthLocals
    /\ n' = UsizeModulus - 1
    /\ x' = 0
    /\ pc' = "loop"
    /\ UNCHANGED << circuit, self, run, equality, gates,
                    advice, selectors, copies, first >>

(* ---------------- FibChip::assign_row ---------------- *)
\* the value assigned to the b cell: the copied cell's value, or b
BValue(b, cc) == IF IsSome(cc) THEN Unwrap(cc).value ELSE b

\* variant: the branches of the c cell are exchanged
CValue_Swapped(a_cell, b_cell, z, is_last) ==
    IF is_last THEN ValueAdd(a_cell.value, b_cell.value) ELSE z

\* variant: the c cell is always the sum, z is never consulted
CValue_AlwaysSum(a_cell, b_cell, z, is_last) ==
    ValueAdd(a_cell.value, b_cell.value)

\* the value assigned to the c cell
CValue(a_cell, b_cell, z, is_last) ==
    IF ~ is_last THEN ValueAdd(a_cell.value, b_cell.value) ELSE z

\* variant: the copy is constrained against the a cell of the new row
CopyConstraints_WrongColumn(cc, row) ==
    IF IsSome(cc) THEN { << Unwrap(cc).cell, Cell("a", row) >> } ELSE {}

\* constraints made by copy_advice: the copied cell equals the new b cell
CopyConstraints(cc, row) ==
    IF IsSome(cc) THEN { << Unwrap(cc).cell, Cell("b", row) >> } ELSE {}

\* variant: fib0 is not replaced by the old fib1
Advance_KeepFib0(f0, f1) == << f0, ValueAdd(f0, f1), f1 >>

\* fibtemp = fib1; fib1 = fib0 + &fibtemp; fib0 = fibtemp
\* as the triple <<fib0, fib1, fibtemp>> after the three assignments
Advance(f0, f1) == << f1, ValueAdd(f0, f1), f1 >>

\* variant: the selector is enabled at offset 1 of the region
SelectorEnable_NextOffset(region_start) == {region_start + 1}

\* self.config.selector.enable(&mut region, 0): the rows it enables
SelectorEnable(region_start) == {region_start + 0}

\* variant: the b cell is remembered as the next carry-in
NextCopyCell_B(a_cell, b_cell, c_cell) == Some(b_cell)

\* copy_cell = Some(c_cell)
NextCopyCell(a_cell, b_cell, c_cell) == Some(c_cell)

\* variant: the Err of assign_row is dropped and the loop goes on
OnAssignErr_Ignored == "loop"

\* assign_row(...).unwrap() on Err: the thread panics
OnAssignErr == "panic"

\* assign_region fails when no row is left, copy_advice when a column of
\* the constraint is not in the permutation
AssignFails(cc, row) ==
    \/ row >= MaxRows
    \/ /\ IsSome(cc)
       /\ ~ ({Unwrap(cc).cell.column, "b"} \subseteq equality)

\* one iteration of the for_each closure: assign_row(...).unwrap(), then the
\* recurrence is advanced
loop_body ==
    /\ pc = "loop"
    /\ x < n
    /\ LET row == Len(advice)
           is_last == IsLast(x, self.k.v)
           a_cell == AssignedCell("a", row, fib0)
           b_cell == AssignedCell("b", row, BValue(fib1, copy_cell))
           c_cell == AssignedCell("c", row, CValue(a_cell, b_cell, self.z, is_last))
       IN  /\ calls' = Append(calls, [x |-> x, a |-> fib0, b |-> fib1,
                                      copy_cell |-> copy_cell, z |-> self.z,
                                      is_last |-> is_last])
           /\ IF AssignFails(copy_cell, row)
              THEN /\ pc' = OnAssignErr
                   /\ UNCHANGED << fib0, fib1, fibtemp, copy_cell, x,
                                   advice, selectors, copies >>
              ELSE /\ selectors' = selectors \cup SelectorEnable(row)
                   /\ advice' = Append(advice, [a |-> a_cell.value,
                                                b |-> b_cell.value,
                                                c |-> c_cell.value])
                   /\ copies' = copies \cup CopyConstraints(copy_cell, row)
                   /\ copy_cell' = NextCopyCell(a_cell, b_cell, c_cell)
                   /\ fib0' = Advance(fib0, fib1)[1]
                   /\ fib1' = Advance(fib0, fib1)[2]
                   /\ fibtemp' = Advance(fib0, fib1)[3]
                   /\ x' = x + 1
                   /\ pc' = "loop"
    /\ UNCHANGED << circuit, self, run, equality, gates, n, first >>

\* the range is exhausted: synthesize returns Ok(())
loop_exit ==
    /\ pc = "loop"
    /\ x = n
    /\ pc' = "done"
    /\ UNCHANGED << circuit, self, run, equality, gates, fib0, fib1, fibtemp,
                    copy_cell, n, x, advice, selectors, copies, calls, first >>

(* ---------------- the callers of the circuit ---------------- *)
FreshBackend ==
    /\ first' = Table
    /\ equality' = {}
    /\ gates' = {}
    /\ advice' = << >>
    /\ selectors' = {}
    /\ copies' = {}
    /\ pc' = "configure"
    /\ UNCHANGED << circuit, fib0, fib1, fibtemp, copy_cell, n, x, calls >>

\* the same circuit is run a second time on a fresh backend
run_again ==
    /\ pc = "done"
    /\ run = "first"
    /\ run' = "again"
    /\ self' = circuit
    /\ FreshBackend

\* the circuit returned by without_witnesses is run on a fresh backend
run_without_witnesses ==
    /\ pc = "done"
    /\ run = "first"
    /\ run' = "placeholder"
    /\ self' = without_witnesses(circuit)
    /\ FreshBackend

Next ==
    \/ configure
    \/ synthesize_unknown
    \/ synthesize_known
    \/ synthesize_underflow_panic
    \/ synthesize_underflow_wrap
    \/ loop_body
    \/ loop_exit
    \/ run_again
    \/ run_without_witnesses

Spec == Init /\ [][Next]_vars

(* ---------------- the prover's check of a table ---------------- *)
\* the gate "add": s * (a + b - c), at a row whose cells are all known
GateExpr(r) == (r.a.v + r.b.v + FieldOrder - r.c.v) % FieldOrder
RowKnown(r) == r.a.known /\ r.b.known /\ r.c.known
GateHolds(row) ==
    row \in selectors =>
        /\ RowKnown(advice[row + 1])
        /\ GateExpr(advice[row + 1]) = 0

CellValue(cell) == advice[cell.row + 1][cell.column]
CopyHolds(cp) ==
    /\ cp[1].column \in {"a", "b", "c"} /\ cp[2].column \in {"a", "b", "c"}
    /\ cp[1].row < Len(advice) /\ cp[2].row < Len(advice)
    /\ CellValue(cp[1]).known
    /\ CellValue(cp[1]) = CellValue(cp[2])

\* prover.verify() == Ok(())
Verify ==
    /\ \A row \in 0 .. (Len(advice) - 1) : GateHolds(row)
    /\ \A cp \in copies : CopyHolds(cp)

TypeOK ==
    /\ pc \in {"configure", "synthesize", "loop", "done", "panic"}
    /\ run \in {"first", "again", "placeholder"}
    /\ Len(advice) <= MaxRows

(* ---------------- the reference recurrence ---------------- *)
RECURSIVE Fib(_, _, _)
\* f(0) = a, f(1) = b, f(n) = f(n-1) + f(n-2), in the field
Fib(a, b, m) ==
    IF m = 0 THEN a
    ELSE IF m = 1 THEN b
    ELSE (Fib(a, b, m - 1) + Fib(a, b, m - 2)) % FieldOrder

\* f(m) for the inputs of the circuit being synthesized
F(m) == Fib(self.a.v, self.b.v, m)

AllKnown(c) == c.a.known /\ c.b.known /\ c.k.known /\ c.z.known
Synthesized == pc = "done"
\* the row at offset r of the table
Row(r) == advice[r + 1]
\* (F(k) - z) in the field
Minus(p, q) == (p + FieldOrder - q) % FieldOrder

(* ---------------- C1 ---------------- *)
\* C1 (completeness): when synthesize has returned for known (a, b, k, z)
\* with k >= 2 and z = f(k), every row satisfies the gate and every copy
\* constraint holds, so verification succeeds.
C1_Completeness ==
    (Synthesized /\ AllKnown(self) /\ self.k.v >= 2 /\ self.z.v = F(self.k.v))
        => Verify

C1_Witness ==
    /\ Synthesized /\ AllKnown(self) /\ self.k.v >= 3
    /\ self.z.v = F(self.k.v)
    /\ Len(advice) = self.k.v - 1
    /\ copies # {}

(* ---------------- C2 ---------------- *)
\* C2 as stated (soundness for every k): whenever z # f(k) the gate is
\* violated at the terminal row x = k-2 and verification fails.
C2_Original ==
    (Synthesized /\ AllKnown(self) /\ self.z.v # F(self.k.v))
        => /\ ~ Verify
           /\ self.k.v >= 2
           /\ Len(advice) = self.k.v - 1
           /\ ~ GateHolds(self.k.v - 2)

\* C2 (amended, soundness for k >= 2): whenever k >= 2 and z # f(k) the gate
\* is violated at the terminal row x = k-2 and verification fails.
C2_Soundness ==
    (Synthesized /\ AllKnown(self) /\ self.k.v >= 2 /\ self.z.v # F(self.k.v))
        => /\ ~ Verify
           /\ Len(advice) = self.k.v - 1
           /\ ~ GateHolds(self.k.v - 2)

C2_Witness ==
    /\ Synthesized /\ AllKnown(self) /\ self.k.v >= 2
    /\ self.z.v # F(self.k.v)
    /\ Len(advice) = self.k.v - 1

(* ---------------- C3 ---------------- *)
Scenario1 == FibCircuit(Known(FpFrom(1)), Known(FpFrom(2)), Known(9), Known(FpFrom(55)))
TestComplete == FibCircuit(Known(FpFrom(1)), Known(FpFrom(2)), Known(9), Known(FpFrom(89)))

\* C3 as stated: for a=1, b=2, k=9, z=55 verification succeeds.
C3_Original == (Synthesized /\ self = Scenario1) => Verify

\* C3 (amended): for a=1, b=2, k=9 verification succeeds with z=89, the
\* value of f(9); with z=55, which is f(8), the terminal gate is violated.
C3_Scenario ==
    /\ (Synthesized /\ self = TestComplete) => Verify
    /\ (Synthesized /\ self = Scenario1) => (~ Verify /\ ~ GateHolds(7))

C3_Witness ==
    /\ Synthesized /\ self = TestComplete
    /\ Len(advice) = 8
    /\ Row(7) = [a |-> Known(34), b |-> Known(55), c |-> Known(89)]

(* ---------------- C4 ---------------- *)
\* C4: for known k < 2 synthesize makes no assign_row call, assigns no row,
\* enables no selector, creates no copy constraint, and does not abort.
C4_ZeroIterations ==
    (self.k.known /\ self.k.v < 2 /\ pc \notin {"configure", "synthesize"})
        => /\ pc # "panic"
           /\ calls = << >>
           /\ advice = << >> /\ selectors = {} /\ copies = {}

(* ---------------- C5 ---------------- *)
\* C5: the run on the placeholder circuit allocates the same rows, enables
\* the same selectors and creates the same copy constraints as the run on
\* the circuit it was derived from.
C5_SameTopology ==
    (Synthesized /\ run = "placeholder" /\ AllKnown(circuit))
        => /\ Len(advice) = Len(first.advice)
           /\ selectors = first.selectors
           /\ copies = first.copies

(* ---------------- C6 ---------------- *)
\* C6 (chaining): at every row x >= 1 of the table the value on wire b
\* is the value on wire c of row x-1, and the copy constraint between
\* exactly these two cells is recorded.
C6_Chaining ==
    \A r \in 1 .. (Len(advice) - 1) :
        /\ Row(r).b = Row(r - 1).c
        /\ << Cell("c", r - 1), Cell("b", r) >> \in copies

C6_Witness ==
    /\ Synthesized /\ AllKnown(self)
    /\ Len(advice) >= 3
    /\ Row(Len(advice) - 1).b = Row(Len(advice) - 2).c
    /\ Row(Len(advice) - 1).c # ValueAdd(Row(Len(advice) - 1).a, Row(Len(advice) - 1).b)

C8_PublicIndex ==
    (Synthesized /\ self.k.known)
        => \E cp \in copies :
              /\ cp[2] = Cell("instance", 0)
              /\ cp[1].row < Len(advice)
              /\ CellValue(cp[1]) = Known(FpFrom(self.k.v))

(* ---------------- C9 ---------------- *)
\* C9: for known k >= 2 the calls of assign_row are x = 0, 1, ..., in
\* order, never more than k-1 of them, is_last is true for x = k-2 only,
\* no call fails, and when synthesize has returned exactly k-1 calls were
\* made and k-1 rows assigned.
C9_RowSchedule ==
    (self.k.known /\ self.k.v >= 2 /\ pc \notin {"configure", "synthesize"})
        => /\ pc # "panic"
           /\ Len(calls) <= self.k.v - 1
           /\ Len(advice) = Len(calls)
           /\ \A i \in 1 .. Len(calls) :
                 /\ calls[i].x = i - 1
                 /\ calls[i].is_last <=> (i - 1 = self.k.v - 2)
           /\ Synthesized => Len(calls) = self.k.v - 1

C9_Witness ==
    /\ Synthesized /\ self.k.known /\ self.k.v >= 3
    /\ Len(calls) = self.k.v - 1
    /\ calls[Len(calls)].is_last
    /\ ~ calls[1].is_last

(* ---------------- C10 ---------------- *)
\* C10: for known inputs with k >= 2 the terminal row x = k-2 holds
\* (f(k-2), f(k-1), z); its gate expression is f(k) - z, and its gate is
\* satisfied exactly when z = f(k).
C10_TerminalRow ==
    (Synthesized /\ AllKnown(self) /\ self.k.v >= 2)
        => /\ Len(advice) = self.k.v - 1
           /\ Row(self.k.v - 2) = [a |-> Known(F(self.k.v - 2)),
                                   b |-> Known(F(self.k.v - 1)),
                                   c |-> self.z]
           /\ GateExpr(Row(self.k.v - 2)) = Minus(F(self.k.v), self.z.v)
           /\ GateHolds(self.k.v - 2) <=> (self.z.v = F(self.k.v))

\* the first row is the terminal row, and z is not the sum a+b
C10_Witness ==
    /\ Synthesized /\ AllKnown(self) /\ self.k.v = 2
    /\ Len(advice) = 1
    /\ Row(0).c = self.z
    /\ Row(0).c # ValueAdd(Row(0).a, Row(0).b)
(* ---------------- C11 ---------------- *)
\* C11: for known inputs with k >= 2 every assigned row x < k-2 holds
\* (f(x), f(x+1), f(x+2)): its c cell is the sum of its a and b cells.
C11_NonTerminalRows ==
    (AllKnown(self) /\ self.k.v >= 2)
        => \A r \in 0 .. (Len(advice) - 1) :
              r < self.k.v - 2
                  => /\ Row(r) = [a |-> Known(F(r)), b |-> Known(F(r + 1)),
                                  c |-> Known(F(r + 2))]
                     /\ Row(r).c = ValueAdd(Row(r).a, Row(r).b)

\* a finished table with two non-terminal rows whose sums differ from z
C11_Witness ==
    /\ Synthesized /\ AllKnown(self) /\ self.k.v >= 4
    /\ Len(advice) = self.k.v - 1
    /\ Row(0).c # self.z /\ Row(1).c # self.z
    /\ Row(1) = [a |-> Known(F(1)), b |-> Known(F(2)), c |-> Known(F(3))]

(* ---------------- C12 ---------------- *)
\* C12: at the start of step x of the loop, (fib0, fib1) = (f(x), f(x+1))
\* when a and b are known; rows 0..x-1 and no others are assigned; copy_cell
\* is None exactly when x = 0 and otherwise is the c cell of row x-1.
C12_DriverState ==
    (pc = "loop")
        => /\ (self.a.known /\ self.b.known)
                => (fib0 = Known(F(x)) /\ fib1 = Known(F(x + 1)))
           /\ Len(advice) = x
           /\ (copy_cell = None) <=> (x = 0)
           /\ x >= 1 => copy_cell = Some(AssignedCell("c", x - 1, Row(x - 1).c))

C12_Witness ==
    /\ pc = "loop" /\ AllKnown(self) /\ x >= 2 /\ x < n
    /\ fib0 = Known(F(x)) /\ fib1 = Known(F(x + 1))
    /\ copy_cell = Some(AssignedCell("c", x - 1, Row(x - 1).c))

(* ---------------- C13 ---------------- *)
\* C13: in every assign_row call made with a carry-in cell, the value of
\* that cell is the second input b of the call, and the cell is not the c
\* cell of a row assigned with is_last.
C13_CarryIn ==
    \A i \in 1 .. Len(calls) :
        IsSome(calls[i].copy_cell)
            => /\ Unwrap(calls[i].copy_cell).value = calls[i].b
               /\ \A j \in 1 .. Len(calls) :
                     calls[j].is_last
                         => Unwrap(calls[i].copy_cell).cell # Cell("c", j - 1)

\* a finished run with z # f(k) whose last call carried a cell in
C13_Witness ==
    /\ Synthesized /\ AllKnown(self) /\ self.k.v >= 3
    /\ self.z.v # F(self.k.v)
    /\ Len(calls) = self.k.v - 1
    /\ calls[Len(calls)].is_last
    /\ IsSome(calls[Len(calls)].copy_cell)
    /\ Unwrap(calls[Len(calls)].copy_cell).value = calls[Len(calls)].b

(* ---------------- C14 ---------------- *)
\* C14: the rows with the selector enabled are exactly the assigned rows.
C14_SelectorEveryRow ==
    selectors = 0 .. (Len(advice) - 1)

\* first, middle and terminal rows assigned from unknown values
C14_Witness ==
    /\ Synthesized /\ ~ self.a.known /\ self.k.known
    /\ Len(advice) >= 3
    /\ selectors = 0 .. (Len(advice) - 1)
    /\ ~ Row(0).c.known

(* ---------------- C15 ---------------- *)
\* every call made so far succeeded
AllCallsSucceeded == Len(advice) = Len(calls)
\* the last call made failed, the ones before it succeeded
LastCallFailed == calls # << >> /\ Len(advice) = Len(calls) - 1

\* C15: while synthesize runs and when it has returned Ok, every assign_row
\* call it made succeeded; a call that assigns no row aborts synthesize at
\* that step, the failed call is the last one made, and the aborted state
\* is never left: no row is assigned and no call is made afterwards.
C15_CompleteOrFatal ==
    /\ [](pc \in {"loop", "done"} => AllCallsSucceeded)
    /\ []((pc = "panic" /\ calls # << >>) => LastCallFailed)
    /\ [][(pc = "loop" /\ calls' # calls /\ advice' = advice)
              => pc' = "panic"]_vars
    /\ [][pc = "panic" => (pc' = "panic" /\ advice' = advice
                              /\ calls' = calls)]_vars

\* a call failed after rows had been assigned
C15_Witness ==
    /\ pc = "panic"
    /\ LastCallFailed
    /\ Len(advice) >= 1

(* ---------------- C16 ---------------- *)
\* C16: from the end of configure on, and so whenever a row is assigned,
\* equality is enabled on the wires a, b and c; every copy constraint is
\* between enabled wires, and an assign_row call fails only for lack of rows.
C16_CopyPermitted ==
    /\ pc # "configure" => {"a", "b", "c"} \subseteq equality
    /\ advice # << >> => {"a", "b", "c"} \subseteq equality
    /\ \A cp \in copies : {cp[1].column, cp[2].column} \subseteq equality
    /\ (pc = "panic" /\ calls # << >>) => Len(advice) >= MaxRows

C16_Witness ==
    /\ Synthesized
    /\ Cardinality(copies) >= 2
    /\ \A cp \in copies : cp[1].column = "c" /\ cp[2].column = "b"
    /\ equality = {"a", "b", "c"}

(* ---------------- C17 ---------------- *)
\* cells of a constraint that lie on the given row
OnRow(cp, r) == cp[1].row = r \/ cp[2].row = r

\* C17: a step of one run leaves every assigned row, every enabled selector
\* and every copy constraint as it is; it adds at most one row, the next
\* one, enables the selector of that row only, and adds only constraints
\* whose new cell is on that row.
C17_RowsImmutable ==
    [][run' = run =>
        /\ Len(advice') \in {Len(advice), Len(advice) + 1}
        /\ \A r \in 0 .. (Len(advice) - 1) : advice'[r + 1] = advice[r + 1]
        /\ selectors \subseteq selectors'
        /\ copies \subseteq copies'
        /\ (selectors' \ selectors) \subseteq
               (IF Len(advice') > Len(advice) THEN {Len(advice)} ELSE {})
        /\ \A cp \in copies' \ copies :
               /\ Len(advice') > Len(advice)
               /\ cp[2].row = Len(advice)
               /\ cp[1].row < Len(advice)
               /\ cp[1] \in {Cell("a", cp[1].row), Cell("b", cp[1].row),
                              Cell("c", cp[1].row)}
      ]_vars

C17_Witness ==
    /\ pc = "loop" /\ AllKnown(self)
    /\ Len(advice) >= 3
    /\ Row(0) = [a |-> self.a, b |-> self.b, c |-> ValueAdd(self.a, self.b)]
    /\ 0 \in selectors

(* ---------------- C18 ---------------- *)
\* C18: for known inputs with k >= 2, whatever z is, every assigned row
\* other than x = k-2 satisfies the gate and every copy constraint holds.
C18_OnlyTerminalCanFail ==
    (AllKnown(self) /\ self.k.v >= 2)
        => /\ \A r \in 0 .. (Len(advice) - 1) :
                 r # self.k.v - 2 => GateHolds(r)
           /\ \A cp \in copies : CopyHolds(cp)

\* a finished table with a wrong z: only the terminal gate is violated
C18_Witness ==
    /\ Synthesized /\ AllKnown(self) /\ self.k.v >= 3
    /\ self.z.v # F(self.k.v)
    /\ ~ GateHolds(self.k.v - 2)
    /\ GateHolds(0)
    /\ copies # {}

(* ---------------- C19 ---------------- *)
\* C19: when synthesize has returned for a known k >= 2 the copy constraints
\* are exactly c(row x-1) = b(row x) for 1 <= x <= k-2, k-2 of them; the
\* value of a at row x+1 is the value of b at row x, and no constraint
\* joins these two cells.
C19_OnlyChainCopies ==
    (Synthesized /\ self.k.known /\ self.k.v >= 2)
        => /\ copies = { << Cell("c", r - 1), Cell("b", r) >> :
                            r \in 1 .. (self.k.v - 2) }
           /\ Cardinality(copies) = self.k.v - 2
           /\ \A cp \in copies :
                 /\ "a" \notin {cp[1].column, cp[2].column}
                 /\ Cell("b", 0) \notin {cp[1], cp[2]}
                 /\ Cell("c", self.k.v - 2) \notin {cp[1], cp[2]}
           /\ \A r \in 0 .. (Len(advice) - 2) :
                 /\ Row(r + 1).a = Row(r).b
                 /\ << Cell("b", r), Cell("a", r + 1) >> \notin copies
                 /\ << Cell("a", r + 1), Cell("b", r) >> \notin copies

C19_Witness ==
    /\ Synthesized /\ AllKnown(self) /\ self.k.v >= 4
    /\ Cardinality(copies) = self.k.v - 2
    /\ Row(1).a = Row(0).b
    /\ << Cell("c", 0), Cell("b", 1) >> \in copies
====
